---- MODULE Spec2Model ----
(***************************************************************************)
(* Model of the supporter monitor: the per-peer state machine              *)
(* (state_machine.py), the peer and supporter records                      *)
(* (monitored_subjects.py), the coordinator SupporterMonitor               *)
(* (supporter_monitor.py) and the XML-RPC dispatcher                       *)
(* (supporter_adapter.py).                                                 *)
(*                                                                         *)
(* Python objects live in two heaps (peers, sups) indexed by handles;     *)
(* the lists of the monitor and the rosters of the supporters hold         *)
(* handles, so that aliasing and the difference between object identity    *)
(* and __eq__ (equality of the identity tuples) is kept.  An object no     *)
(* list refers to any more is dropped from its heap, as the Python         *)
(* runtime frees it.                                                       *)
(*                                                                         *)
(* Time is the value time.time() returns, in whole seconds.                *)
(***************************************************************************)
EXTENDS Integers, Sequences, FiniteSets, TLC

(***************************************************************************)
(* shared.py                                                               *)
(***************************************************************************)
MSG_SUPPORT_REQUIRED == "support_required"
MSG_SUPPORT_NOT_NEEDED == "support_not_needed"
MSG_PEER_SUPPORTED == "peer_supported"
MSG_PEER_REGISTERED == "peer_registered"

PEER_TIMEOUT_BOUND == 5
IS_ALIVE_TIMEOUT_BOUND == 10
PEER_REQUIRED_MSGS == 4
\* PEER_STATUS_APPROVAL_TIME = PEER_REQUIRED_MSGS * (1 + 0.150) seconds, kept
\* exact as a number of milliseconds.
PEER_STATUS_APPROVAL_TIME_MS == PEER_REQUIRED_MSGS * (1000 + 150)
PEER_REMOVAL_TIME == 45
\* the literal 10 of _enforce_update_of_monitored_peers
ENFORCE_DEFAULT_AGE == 10
\* the literal 1024 of _set_port and MonitoredSupporter.__init__
MIN_PORT == 1024

PEER_TYPE_SEEDER == 0
PEER_TYPE_LEECHER == 1
PEER_TYPES == {PEER_TYPE_SEEDER, PEER_TYPE_LEECHER}

MsgTypes == {MSG_SUPPORT_REQUIRED, MSG_SUPPORT_NOT_NEEDED, MSG_PEER_SUPPORTED,
             MSG_PEER_REGISTERED}

\* Python's None, for a field that otherwise holds a time or a message type
None == -1
NoMsg == "None"

DefaultState == "Default"
WatchedState == "Watched"
StarvingState == "Starving"
SupportedState == "Supported"
States == {DefaultState, WatchedState, StarvingState, SupportedState}

(***************************************************************************)
(* Bounds of the model and the inputs the environment draws from           *)
(***************************************************************************)
\* the clock starts at StartTime and is advanced at most MaxClockSteps times,
\* by TimeStep seconds each time
MaxClockSteps == 3
\* a peer is sent no further support request once its counter reached this
MaxRequests == 5
\* no tick is run once a peer's assignment count reached this
MaxAssignments == 3
\* the dead-supporter list is never emptied: no probe fails once it is this long
MaxDead == 1

StartTime == 1
\* the clock moves in steps of the smallest timeout, for ages of 0, 5, 10, 15,
\* ... seconds: peer_timeout is met exactly at 5, is_alive_timeout exactly at
\* 10, the literal 10 of the tick is passed at 15, PEER_REMOVAL_TIME is met
\* exactly at 45, PEER_STATUS_APPROVAL_TIME lies between 0 and 5
TimeStep == PEER_TIMEOUT_BOUND
MaxTime == StartTime + MaxClockSteps * TimeStep
\* the messages peers send; peer_supported and peer_registered are the
\* monitor's own
IngressMsgTypes == {MSG_SUPPORT_REQUIRED, MSG_SUPPORT_NOT_NEEDED}

\* the arguments register_monitored_peer is called with: one peer, and
\* calls with a reserved port and with an unknown peer type
PeerIdents == { [id |-> "a", ip |-> "ip1", port |-> 10000] }
BadPeerIdents == { [id |-> "c", ip |-> "ip1", port |-> 500] }
PeerTypeInputs == {PEER_TYPE_LEECHER, 2}
\* the peer IDs messages arrive for: that of the peer, and an unknown one
PeerIdInputs == {"a", "zz"}
\* the peers of the specification SpecCrowd
CrowdPeerIdents ==
    { [id |-> "a", ip |-> "ip1", port |-> 10000],
      [id |-> "b", ip |-> "ip1", port |-> 10001] }
CrowdPeerIds == {"a", "b"}

\* the peers of the specification SpecOrder
OrderPeerIdents ==
    CrowdPeerIdents \cup { [id |-> "d", ip |-> "ip1", port |-> 10002],
                           [id |-> "e", ip |-> "ip1", port |-> 10003] }

\* the arguments register_monitored_supporter is called with
SupIdents ==
    { [id |-> 1, addr |-> <<"host1", 5000>>, min_peer |-> 1, max_peer |-> 1],
      [id |-> 2, addr |-> <<"host2", 5001>>, min_peer |-> 1, max_peer |-> 2] }
\* the supporters of the specification SpecCrowd: the two above and one that
\* wants two starving peers
CrowdSupIdents ==
    SupIdents \cup
    { [id |-> 3, addr |-> <<"host3", 5002>>, min_peer |-> 2, max_peer |-> 2] }
OrderSupIdents == { x \in CrowdSupIdents : x.max_peer = 2 }

\* the peers of the specification SpecFaults: two peers that share their ID
FaultPeerIdents ==
    PeerIdents \cup { [id |-> "a", ip |-> "ip1", port |-> 10001] }
\* the supporters of the specification SpecFaults: one of them asks for no
\* starving peer at all
FaultSupIdents ==
    { [id |-> 2, addr |-> <<"host2", 5001>>, min_peer |-> 1, max_peer |-> 2],
      [id |-> 4, addr |-> <<"host4", 5003>>, min_peer |-> 0, max_peer |-> 1] }

BadSupIdents ==
    { [id |-> 3, addr |-> <<"host3", 1000>>, min_peer |-> 1, max_peer |-> 1],
      [id |-> 3, addr |-> <<"host3", 5002>>, min_peer |-> 2, max_peer |-> 1] }

(***************************************************************************)
(* Sequence helpers                                                        *)
(***************************************************************************)
Range(q) == { q[i] : i \in DOMAIN q }

\* [x for x in q if Keep(x)]
RECURSIVE FilterSeq(_, _)
FilterSeq(q, keep) ==
    IF q = <<>> THEN <<>>
    ELSE IF Head(q) \in keep THEN <<Head(q)>> \o FilterSeq(Tail(q), keep)
                             ELSE FilterSeq(Tail(q), keep)

\* list.remove(x) for one x that is in q at index i: drops that element
RemoveAt(q, i) == [ j \in 1..(Len(q) - 1) |-> IF j < i THEN q[j] ELSE q[j + 1] ]

\* list.sort(cmp) on a list of pairs <<key, item>>; Python's sort is stable.
\* Before(a, b): the pair at index a comes before the pair at index b.
SortedBy(keys, desc) ==
    LET n == Len(keys)
        Less(a, b) == IF desc THEN keys[a] > keys[b] ELSE keys[a] < keys[b]
        Before(a, b) == Less(a, b) \/ (keys[a] = keys[b] /\ a < b)
        Rank(a) == Cardinality({ b \in 1..n : Before(b, a) }) + 1
    IN  [ k \in 1..n |-> CHOOSE a \in 1..n : Rank(a) = k ]

(***************************************************************************)
(* MonitoredPeer (monitored_subjects.py)                                   *)
(***************************************************************************)
\* reset_support_cycle without `self._support_requests = 0'
reset_support_cycle_keeps_counter(p) == [p EXCEPT !.ts_list = <<>>]

\* MonitoredPeer.reset_support_cycle
reset_support_cycle(p) == [p EXCEPT !.ts_list = <<>>, !.support_requests = 0]

\* MonitoredPeer.__init__; the monitor passes its own timeouts, kept in the
\* definitions is_alive_timeout and peer_timeout below
NewPeer(ident, peer_type) ==
    [ id |-> ident.id, ip |-> ident.ip, port |-> ident.port,
      peer_type |-> peer_type,
      last_received_msg |-> NoMsg,
      ts_last_received_msg |-> None,
      state |-> DefaultState,
      timeout_timer |-> None,
      ts_list |-> <<>>,
      support_requests |-> 0 ]

\* SupporterMonitor.__init__: is_alive_timeout or IS_ALIVE_TIMEOUT_BOUND, for
\* a monitor constructed without arguments
is_alive_timeout == IS_ALIVE_TIMEOUT_BOUND
peer_timeout == PEER_TIMEOUT_BOUND

\* MonitoredPeer.__hash__ / __eq__: the 3-tuple (ID, IP, Port)
PeerKey(p) == <<p.id, p.ip, p.port>>

get_ts_first_request(p) == IF Len(p.ts_list) = 0 THEN None ELSE p.ts_list[1]
get_ts_last_request(p) == IF Len(p.ts_list) = 0 THEN None ELSE p.ts_list[Len(p.ts_list)]

timeout_timer_stopped(p) == p.timeout_timer = None

\* peer_timed_out with `>' written for `>=': the cooldown is not over at
\* exactly peer_timeout seconds
peer_timed_out_strict(p, t) ==
    IF timeout_timer_stopped(p) THEN FALSE
    ELSE (t - p.timeout_timer) > peer_timeout

\* MonitoredPeer.peer_timed_out
peer_timed_out(p, t) ==
    IF timeout_timer_stopped(p) THEN FALSE
    ELSE (t - p.timeout_timer) >= peer_timeout

\* MonitoredPeer.peer_is_alive
peer_is_alive(p, t) ==
    IF get_ts_last_request(p) # None
    THEN (t - get_ts_last_request(p)) < is_alive_timeout
    ELSE TRUE

(***************************************************************************)
(* State.transition (state_machine.py)                                     *)
(***************************************************************************)
\* DefaultState.transition
DefaultTransition(p, t) ==
    IF get_ts_first_request(p) # None /\ p.support_requests = 1
    THEN [p EXCEPT !.state = WatchedState]
    ELSE p

\* the approval interval with the span left in seconds against a bound in
\* milliseconds
approval_interval_in_wrong_unit(p) ==
    (get_ts_last_request(p) - get_ts_first_request(p)) <= PEER_STATUS_APPROVAL_TIME_MS

\* WatchedState.support_requests_are_within_approval_interval
support_requests_are_within_approval_interval(p) ==
    (get_ts_last_request(p) - get_ts_first_request(p)) * 1000 <= PEER_STATUS_APPROVAL_TIME_MS

\* WatchedState.minimum_support_requests_reached
minimum_support_requests_reached(p) == p.support_requests >= PEER_REQUIRED_MSGS

\* WatchedState.transition
WatchedTransition(p, t) ==
    IF ~peer_is_alive(p, t)
    THEN reset_support_cycle([p EXCEPT !.state = DefaultState])
    ELSE IF p.last_received_msg = MSG_SUPPORT_NOT_NEEDED
    THEN [p EXCEPT !.state = DefaultState]
    ELSE IF p.last_received_msg = MSG_SUPPORT_REQUIRED
    THEN IF support_requests_are_within_approval_interval(p)
            /\ minimum_support_requests_reached(p)
         THEN [p EXCEPT !.state = StarvingState]
         ELSE p
    ELSE p

\* StarvingState.transition: the second `if' is not an `elif'
StarvingTransition(p, t) ==
    LET msg_type == p.last_received_msg
        p1 == IF ~peer_is_alive(p, t)
              THEN reset_support_cycle([p EXCEPT !.state = DefaultState])
              ELSE IF msg_type = MSG_SUPPORT_NOT_NEEDED
              THEN [p EXCEPT !.state = DefaultState]
              ELSE p
    IN  IF msg_type = MSG_PEER_SUPPORTED
        THEN [p1 EXCEPT !.state = SupportedState]
        ELSE p1

\* SupportedState.transition: `a and b or c' is (a and b) or c
SupportedTransition(p, t) ==
    LET msg_type == p.last_received_msg
    IN  IF ~peer_is_alive(p, t)
        THEN reset_support_cycle([p EXCEPT !.state = DefaultState])
        ELSE IF (msg_type = MSG_SUPPORT_NOT_NEEDED /\ peer_timed_out(p, t))
                \/ ~peer_is_alive(p, t)
        THEN [p EXCEPT !.state = DefaultState]
        ELSE p

\* mp.get_state().transition()
transition(p, t) ==
    CASE p.state = DefaultState -> DefaultTransition(p, t)
      [] p.state = WatchedState -> WatchedTransition(p, t)
      [] p.state = StarvingState -> StarvingTransition(p, t)
      [] p.state = SupportedState -> SupportedTransition(p, t)

(***************************************************************************)
(* Message handlers of MonitoredPeer                                       *)
(***************************************************************************)
\* received_support_required_message without `del self._ts_list[0]'
support_required_without_eviction(p, t) ==
    [p EXCEPT !.support_requests = @ + 1,
              !.timeout_timer = None,
              !.ts_list = Append(@, t)]

\* MonitoredPeer.received_support_required_message
received_support_required_message(p, t) ==
    LET appended == Append(p.ts_list, t)
    IN  [p EXCEPT !.support_requests = @ + 1,
                  !.timeout_timer = None,
                  !.ts_list = IF Len(appended) > PEER_REQUIRED_MSGS
                              THEN Tail(appended) ELSE appended]

\* MonitoredPeer.start_timeout_timer
start_timeout_timer(p, t) ==
    IF p.timeout_timer = None THEN [p EXCEPT !.timeout_timer = t] ELSE p

\* received_support_not_needed_message without reset_support_cycle()
not_needed_without_reset(p, t) == start_timeout_timer(p, t)

\* MonitoredPeer.received_support_not_needed_message
received_support_not_needed_message(p, t) ==
    start_timeout_timer(reset_support_cycle(p), t)

\* self.msg_handler[msg_type]()
msg_handler(p, msg_type, t) ==
    CASE msg_type = MSG_SUPPORT_REQUIRED -> received_support_required_message(p, t)
      [] msg_type = MSG_SUPPORT_NOT_NEEDED -> received_support_not_needed_message(p, t)
      [] msg_type = MSG_PEER_SUPPORTED -> p
      [] msg_type = MSG_PEER_REGISTERED -> p

\* MonitoredPeer.receive_msg
receive_msg(p, msg_type, t) ==
    transition(
        msg_handler([p EXCEPT !.last_received_msg = msg_type,
                              !.ts_last_received_msg = t], msg_type, t), t)

\* support_aborted that leaves the state of the peer as it is
support_aborted_keeps_state(p) == p

\* MonitoredPeer.support_aborted
support_aborted(p) == [p EXCEPT !.state = StarvingState]

(***************************************************************************)
(* MonitoredSupporter (monitored_subjects.py)                              *)
(***************************************************************************)
\* MonitoredSupporter.__init__
NewSupporter(ident) ==
    [ id |-> ident.id, addr |-> ident.addr,
      min_peer |-> ident.min_peer, max_peer |-> ident.max_peer,
      supported_peers |-> <<>>,
      updated |-> TRUE ]

\* MonitoredSupporter.__hash__ / __eq__: the 4-tuple (ID, address, min_peer, max_peer)
SupporterKey(ms) == <<ms.id, ms.addr, ms.min_peer, ms.max_peer>>

available_slots(ms) == ms.max_peer - Len(ms.supported_peers)
assigned_slots(ms) == Len(ms.supported_peers)

(***************************************************************************)
(* The state of a SupporterMonitor as one record s:                        *)
(*   s.peers, s.sups            the heaps of MonitoredPeer and             *)
(*                              MonitoredSupporter objects                 *)
(*   s.monitored_peers, s.monitored_supporters, s.active_supporters,       *)
(*   s.dead_supporters          the lists of the monitor (of handles)      *)
(*   s.number_of_assignments    the dict peer ID -> count                  *)
(* `x in list' and list.remove(x) compare with __eq__, that is by key.     *)
(***************************************************************************)
PeerKeyOf(s, h) == PeerKey(s.peers[h])
SupKeyOf(s, h) == SupporterKey(s.sups[h])

\* monitored_peer in <list of peers>
peer_in(s, key, q) == \E i \in DOMAIN q : PeerKeyOf(s, q[i]) = key
\* monitored_supporter in <list of supporters>
supporter_in(s, key, q) == \E i \in DOMAIN q : SupKeyOf(s, q[i]) = key

FirstPeerIndex(s, key, q) ==
    CHOOSE i \in DOMAIN q : /\ PeerKeyOf(s, q[i]) = key
                            /\ \A j \in 1..(i - 1) : PeerKeyOf(s, q[j]) # key
FirstSupIndex(s, key, q) ==
    CHOOSE i \in DOMAIN q : /\ SupKeyOf(s, q[i]) = key
                            /\ \A j \in 1..(i - 1) : SupKeyOf(s, q[j]) # key

\* a handle no object of the heap has
NewHandle(heap) == CHOOSE n \in 1..(Cardinality(DOMAIN heap) + 1) : n \notin DOMAIN heap

\* heap with object h set to obj (h may be new)
Store(heap, h, obj) == [ x \in DOMAIN heap \cup {h} |-> IF x = h THEN obj ELSE heap[x] ]

\* the first occurrences of the elements of q, in order
RECURSIVE Dedup(_, _)
Dedup(q, seen) ==
    IF q = <<>> THEN <<>>
    ELSE IF Head(q) \in seen THEN Dedup(Tail(q), seen)
         ELSE <<Head(q)>> \o Dedup(Tail(q), seen \cup {Head(q)})

\* q[1] \o q[2] \o ... for a sequence of sequences
RECURSIVE Flatten(_)
Flatten(qq) == IF qq = <<>> THEN <<>> ELSE Head(qq) \o Flatten(Tail(qq))

IndexIn(q, x) == CHOOSE i \in DOMAIN q : q[i] = x

\* The objects some list still refers to, in the order in which the lists
\* reach them; the others are freed.
LiveSups(s) ==
    Dedup(s.monitored_supporters \o s.active_supporters \o s.dead_supporters, {})
LivePeers(s) ==
    LET live == LiveSups(s)
    IN  Dedup(s.monitored_peers
                \o Flatten([ i \in DOMAIN live |-> s.sups[live[i]].supported_peers ]), {})

\* A peer object that is no longer registered is reached through rosters
\* only: messages (received_peer_message) and ticks
\* (_enforce_update_of_monitored_peers, filter_peers_by_state) go through
\* _monitored_peers.  Of such an object the code reads the identity and the
\* state (update_supported_peer_list, dispatch_peer_lists) and writes the
\* state (support_aborted); its other fields are never read again and are
\* kept at their initial values.
Unregistered(p) ==
    [ NewPeer([id |-> p.id, ip |-> p.ip, port |-> p.port], p.peer_type)
        EXCEPT !.state = p.state ]

\* Likewise the dirty flag of a supporter object that is no longer registered
\* is never read: dispatch_peer_lists goes through _monitored_supporters.
UnregisteredSup(ms) == [ms EXCEPT !.updated = TRUE]

\* Memory management: the objects no list refers to are freed and the live
\* ones are numbered in the order LiveSups and LivePeers give (a handle is an
\* address, and means nothing to the program).
Collect(s) ==
    LET ls == LiveSups(s)
        lp == LivePeers(s)
        ms(h) == IndexIn(ls, h)
        mp(h) == IndexIn(lp, h)
        maps(q) == [ i \in DOMAIN q |-> ms(q[i]) ]
        mapp(q) == [ i \in DOMAIN q |-> mp(q[i]) ]
        registered_sups == Range(s.monitored_supporters)
        registered_peers == Range(s.monitored_peers)
    IN  [ peers |-> [ i \in DOMAIN lp |->
                        IF lp[i] \in registered_peers
                        THEN s.peers[lp[i]] ELSE Unregistered(s.peers[lp[i]]) ],
          sups |-> [ i \in DOMAIN ls |->
                        LET o == IF ls[i] \in registered_sups
                                 THEN s.sups[ls[i]] ELSE UnregisteredSup(s.sups[ls[i]])
                        IN  [o EXCEPT !.supported_peers = mapp(@)] ],
          monitored_peers |-> mapp(s.monitored_peers),
          monitored_supporters |-> maps(s.monitored_supporters),
          active_supporters |-> maps(s.active_supporters),
          dead_supporters |-> maps(s.dead_supporters),
          number_of_assignments |-> s.number_of_assignments ]

\* add_supported_peer that does not mark the supporter as updated
add_supported_peer_unmarked(s, sh, ph) ==
    IF \A i \in DOMAIN s.sups[sh].supported_peers :
           PeerKey(s.peers[s.sups[sh].supported_peers[i]]) # PeerKey(s.peers[ph])
    THEN [s EXCEPT !.sups[sh].supported_peers = Append(@, ph)]
    ELSE s

\* MonitoredSupporter.add_supported_peer, on supporter object sh with peer object ph
add_supported_peer(s, sh, ph) ==
    IF ~peer_in(s, PeerKeyOf(s, ph), s.sups[sh].supported_peers)
    THEN [s EXCEPT !.sups[sh].updated = TRUE,
                   !.sups[sh].supported_peers = Append(@, ph)]
    ELSE s

\* MonitoredSupporter.remove_supported_peer
remove_supported_peer(s, sh, ph) ==
    LET roster == s.sups[sh].supported_peers
        key == PeerKeyOf(s, ph)
    IN  IF peer_in(s, key, roster)
        THEN [s EXCEPT !.sups[sh].supported_peers = RemoveAt(roster, FirstPeerIndex(s, key, roster)),
                       !.sups[sh].updated = TRUE]
        ELSE s

\* MonitoredSupporter.cancel_support_for_all_peers: the loop over collected_peers
RECURSIVE cancel_loop(_, _, _)
cancel_loop(s, sh, collected_peers) ==
    IF collected_peers = <<>> THEN s
    ELSE LET mp == Head(collected_peers)
             s1 == remove_supported_peer(s, sh, mp)
             s2 == [s1 EXCEPT !.peers[mp] = support_aborted(@)]
         IN  cancel_loop(s2, sh, Tail(collected_peers))

cancel_support_for_all_peers(s, sh) == cancel_loop(s, sh, s.sups[sh].supported_peers)

\* MonitoredSupporter.update_supported_peer_list
RECURSIVE update_remove_loop(_, _, _)
update_remove_loop(s, sh, to_be_removed) ==
    IF to_be_removed = <<>> THEN s
    ELSE LET s1 == remove_supported_peer(s, sh, Head(to_be_removed))
             s2 == [s1 EXCEPT !.sups[sh].updated = TRUE]
         IN  update_remove_loop(s2, sh, Tail(to_be_removed))

update_supported_peer_list(s, sh) ==
    LET to_be_removed ==
            FilterSeq(s.sups[sh].supported_peers,
                      { ph \in DOMAIN s.peers : s.peers[ph].state = DefaultState })
    IN  update_remove_loop(s, sh, to_be_removed)

\* MonitoredSupporter.reset_update_counter: the value returned is s.sups[sh].updated
reset_update_counter(s, sh) == [s EXCEPT !.sups[sh].updated = FALSE]

(***************************************************************************)
(* SupporterMonitor: the ingress operations (supporter_monitor.py)         *)
(***************************************************************************)
\* a dispatch that does not compare the ID
received_peer_message_to_first(s, msg_type, peer_id, t) ==
    IF s.monitored_peers = <<>> THEN s
    ELSE [s EXCEPT !.peers[s.monitored_peers[1]] = receive_msg(@, msg_type, t)]

\* SupporterMonitor.received_peer_message: the first registered peer with the
\* given ID receives the message; an unknown ID is logged and dropped
received_peer_message(s, msg_type, peer_id, t) ==
    LET q == s.monitored_peers
        hits == { i \in DOMAIN q : s.peers[q[i]].id = peer_id }
    IN  IF hits = {} THEN s
        ELSE LET i == CHOOSE i \in hits : \A j \in hits : i <= j
             IN  [s EXCEPT !.peers[q[i]] = receive_msg(@, msg_type, t)]

\* a constructor that asserts nothing
peer_args_unchecked(ident, peer_type) == TRUE

\* MonitoredPeer.__init__ raises AssertionError (_set_port, set_peer_type)
PeerArgsValid(ident, peer_type) == ident.port >= MIN_PORT /\ peer_type \in PEER_TYPES

\* SupporterMonitor.register_monitored_peer; an AssertionError of the
\* constructor leaves through the finally clause before anything is changed
register_monitored_peer(s, ident, peer_type, t) ==
    IF ~PeerArgsValid(ident, peer_type) THEN s
    ELSE LET mp == NewPeer(ident, peer_type)
             h == NewHandle(s.peers)
             s1 == IF ~peer_in(s, PeerKey(mp), s.monitored_peers)
                   THEN [s EXCEPT !.peers = Store(@, h, mp),
                                  !.monitored_peers = Append(@, h)]
                   ELSE s
         IN  received_peer_message(s1, MSG_PEER_REGISTERED, ident.id, t)

\* SupporterMonitor.unregister_monitored_peer, given any object equal to key
unregister_monitored_peer(s, key) ==
    IF peer_in(s, key, s.monitored_peers)
    THEN [s EXCEPT !.monitored_peers = RemoveAt(@, FirstPeerIndex(s, key, @))]
    ELSE s

\* MonitoredSupporter.__init__ raises AssertionError
SupporterArgsValid(ident) == ident.addr[2] >= MIN_PORT /\ ident.min_peer <= ident.max_peer

\* SupporterMonitor.register_monitored_supporter (register_proxy keeps no
\* state the monitor reads)
register_monitored_supporter(s, ident) ==
    IF ~SupporterArgsValid(ident) THEN s
    ELSE LET ms == NewSupporter(ident)
             h == NewHandle(s.sups)
         IN  IF ~supporter_in(s, SupporterKey(ms), s.monitored_supporters)
             THEN [s EXCEPT !.sups = Store(@, h, ms),
                            !.monitored_supporters = Append(@, h)]
             ELSE s

\* SupporterMonitor.unregister_monitored_supporter, given the object sh: the
\* roster cancelled is the one of sh, the entry removed from the registry is
\* the first one equal to sh
unregister_monitored_supporter(s, sh) ==
    IF supporter_in(s, SupKeyOf(s, sh), s.monitored_supporters)
    THEN LET s1 == cancel_support_for_all_peers(s, sh)
         IN  [s1 EXCEPT !.monitored_supporters =
                            RemoveAt(@, FirstSupIndex(s1, SupKeyOf(s1, sh), @))]
    ELSE s

\* SupporterMonitor.order_active_supporters
order_active_supporters(s) ==
    LET q == s.active_supporters
        keys == [ i \in DOMAIN q |-> available_slots(s.sups[q[i]]) ]
        perm == SortedBy(keys, TRUE)
    IN  [s EXCEPT !.active_supporters = [ k \in DOMAIN q |-> q[perm[k]] ]]

\* SupporterMonitor.filter_peers_by_state
filter_peers_by_state(s, state_class) ==
    FilterSeq(s.monitored_peers, { h \in DOMAIN s.peers : s.peers[h].state = state_class })

\* SupporterMonitor.remaining_active_supporters_with_capacity
remaining_active_supporters_with_capacity(s) ==
    Len(s.active_supporters) # 0 /\ available_slots(s.sups[s.active_supporters[1]]) > 0

\* activate_supporter with the test for `already activated' turned round
activate_supporter_inverted(s, sh) ==
    IF assigned_slots(s.sups[sh]) = 0 THEN s
    ELSE [s EXCEPT !.active_supporters = Append(@, sh)]

\* SupporterMonitor.activate_supporter
activate_supporter(s, sh) ==
    IF assigned_slots(s.sups[sh]) # 0 THEN s
    ELSE [s EXCEPT !.active_supporters = Append(@, sh)]

\* number_of_assignments.setdefault(id, 1); number_of_assignments[id] += 1
count_assignment(d, id) ==
    LET d1 == IF id \in DOMAIN d THEN d ELSE [ x \in DOMAIN d \cup {id} |-> IF x = id THEN 1 ELSE d[x] ]
    IN  [d1 EXCEPT ![id] = @ + 1]

\* SupporterMonitor.assign_peer_to_supporter
assign_peer_to_supporter(s, ph, sh, t) ==
    IF ~supporter_in(s, SupKeyOf(s, sh), s.active_supporters) THEN s
    ELSE LET s1 == order_active_supporters(add_supported_peer(s, sh, ph))
             s2 == [s1 EXCEPT !.peers[ph] = receive_msg(@, MSG_PEER_SUPPORTED, t)]
         IN  [s2 EXCEPT !.number_of_assignments = count_assignment(@, s.peers[ph].id)]

(***************************************************************************)
(* SupporterMonitor.update_states: the steps of a tick                     *)
(***************************************************************************)
\* _remove_timedout_peers raises TypeError at `ts - mp.get_ts_last_message()'
\* for a peer that has no last-message timestamp; the loop that raises only
\* collects, so nothing has been removed by then
remove_timedout_peers_raises(s) ==
    \E h \in Range(s.monitored_peers) : s.peers[h].ts_last_received_msg = None

RECURSIVE unregister_peers_loop(_, _)
unregister_peers_loop(s, peers_to_be_removed) ==
    IF peers_to_be_removed = <<>> THEN s
    ELSE unregister_peers_loop(
             unregister_monitored_peer(s, PeerKeyOf(s, Head(peers_to_be_removed))),
             Tail(peers_to_be_removed))

\* a reap that spares a peer whose last message is exactly PEER_REMOVAL_TIME old
remove_timedout_peers_late(s, t) ==
    unregister_peers_loop(s,
        FilterSeq(s.monitored_peers,
                  { h \in DOMAIN s.peers :
                        (t - s.peers[h].ts_last_received_msg) > PEER_REMOVAL_TIME }))

\* SupporterMonitor._remove_timedout_peers
remove_timedout_peers(s, t) ==
    LET peers_to_be_removed ==
            FilterSeq(s.monitored_peers,
                      { h \in DOMAIN s.peers :
                            (t - s.peers[h].ts_last_received_msg) >= PEER_REMOVAL_TIME })
    IN  unregister_peers_loop(s, peers_to_be_removed)

\* SupporteeListDispatcher.query_all_supporters: the registered supporters
\* whose is_alive() call raises (those in not_responding) are appended to
\* the monitor's _dead_supporters
query_all_supporters(s, not_responding) ==
    [s EXCEPT !.dead_supporters = @ \o FilterSeq(s.monitored_supporters, not_responding)]

\* SupporterMonitor._remove_dead_supporters; the list is not emptied
RECURSIVE remove_dead_loop(_, _)
remove_dead_loop(s, dead) ==
    IF dead = <<>> THEN s
    ELSE remove_dead_loop(unregister_monitored_supporter(s, Head(dead)), Tail(dead))

remove_dead_supporters(s) == remove_dead_loop(s, s.dead_supporters)

\* the body of the loop of _enforce_update_of_monitored_peers; a timestamp
\* of 0 is false in `mp.get_ts_last_request() and ...'
enforce_update_of_peer(p, t) ==
    IF get_ts_last_request(p) # None /\ get_ts_last_request(p) # 0
       /\ (t - get_ts_last_request(p) > ENFORCE_DEFAULT_AGE)
    THEN [p EXCEPT !.state = DefaultState]
    ELSE transition(p, t)

\* SupporterMonitor._enforce_update_of_monitored_peers
enforce_update_of_monitored_peers(s, t) ==
    [s EXCEPT !.peers = [ h \in DOMAIN s.peers |->
                            IF h \in Range(s.monitored_peers)
                            THEN enforce_update_of_peer(s.peers[h], t)
                            ELSE s.peers[h] ]]

\* the loop of _enforce_update_of_monitored_supporters over the active list
RECURSIVE update_supporters_loop(_, _)
update_supporters_loop(s, active) ==
    IF active = <<>> THEN s
    ELSE update_supporters_loop(update_supported_peer_list(s, Head(active)), Tail(active))

\* SupporterMonitor._enforce_update_of_monitored_supporters
enforce_update_of_monitored_supporters(s) ==
    LET s1 == update_supporters_loop(s, s.active_supporters)
        supporters_to_be_inactivated ==
            FilterSeq(s1.active_supporters,
                      { h \in DOMAIN s1.sups : assigned_slots(s1.sups[h]) = 0 })
        keep == { h \in DOMAIN s1.sups :
                      ~supporter_in(s1, SupKeyOf(s1, h), supporters_to_be_inactivated) }
    IN  [s1 EXCEPT !.active_supporters = FilterSeq(@, keep)]

\* sort_starving_peers without the sort: the peers in registry order
sort_starving_peers_in_registry_order(s, starving_peers) == starving_peers

\* SupporterMonitor.sort_starving_peers
sort_starving_peers(s, starving_peers) ==
    LET d == s.number_of_assignments
        keys == [ i \in DOMAIN starving_peers |->
                    LET id == s.peers[starving_peers[i]].id
                    IN  IF id \in DOMAIN d THEN d[id] ELSE 0 ]
        perm == SortedBy(keys, TRUE)
    IN  [ k \in DOMAIN starving_peers |-> starving_peers[perm[k]] ]

\* the while loop of _assign_starving_peers_to_active_supporters
RECURSIVE assign_loop(_, _, _)
assign_loop(s, starving_peers, t) ==
    IF Len(starving_peers) > 0 /\ remaining_active_supporters_with_capacity(s)
    THEN LET peer == starving_peers[1]
             s1 == assign_peer_to_supporter(s, peer, s.active_supporters[1], t)
         IN  assign_loop(order_active_supporters(s1), Tail(starving_peers), t)
    ELSE s

\* SupporterMonitor._assign_starving_peers_to_active_supporters
assign_starving_peers_to_active_supporters(s, t) ==
    assign_loop(s, sort_starving_peers(s, filter_peers_by_state(s, StarvingState)), t)

\* sorted_list_of_inactive_supporters without the sort
inactive_supporters_unsorted(s) ==
    FilterSeq(s.monitored_supporters,
              { h \in DOMAIN s.sups :
                    ~supporter_in(s, SupKeyOf(s, h), s.active_supporters) })

\* sorted_list_of_inactive_supporters: the registered supporters that are not
\* in the active list, in ascending order of min_peer
sorted_list_of_inactive_supporters(s) ==
    LET inactive == FilterSeq(s.monitored_supporters,
                              { h \in DOMAIN s.sups :
                                    ~supporter_in(s, SupKeyOf(s, h), s.active_supporters) })
        keys == [ i \in DOMAIN inactive |-> s.sups[inactive[i]].min_peer ]
        perm == SortedBy(keys, FALSE)
    IN  [ k \in DOMAIN inactive |-> inactive[perm[k]] ]

\* retrieve_activation_index, from position i (1-based) of the loop on, with
\* starving_number peers left and the index found so far; returns the 0-based
\* index of the source, -1 for none
RECURSIVE activation_index_loop(_, _, _, _, _)
activation_index_loop(s, inactive_supporters, i, starving_number, activate_up_to_index) ==
    IF i > Len(inactive_supporters) THEN activate_up_to_index
    ELSE IF starving_number >= s.sups[inactive_supporters[i]].min_peer
    THEN activation_index_loop(s, inactive_supporters, i + 1,
             starving_number - available_slots(s.sups[inactive_supporters[i]]), i - 1)
    ELSE activate_up_to_index

retrieve_activation_index(s, starving_peers, inactive_supporters) ==
    activation_index_loop(s, inactive_supporters, 1, Len(starving_peers), -1)

\* the inner loop of activate_supporters_and_assign_peers: every peer is
\* assigned to inactive_supporters[0][0], whichever supporter was activated.
\* Returns the state and the list assigned_peers.
RECURSIVE assign_to_first_loop(_, _, _, _, _)
assign_to_first_loop(s, first, peers_left, assigned_peers, t) ==
    IF peers_left = <<>> THEN [s |-> s, assigned_peers |-> assigned_peers]
    ELSE LET peer == Head(peers_left)
             s1 == assign_peer_to_supporter(s, peer, first, t)
             assigned == Append(assigned_peers, peer)
         IN  IF available_slots(s1.sups[first]) = 0
             THEN [s |-> s1, assigned_peers |-> assigned]
             ELSE assign_to_first_loop(s1, first, Tail(peers_left), assigned, t)

\* the loop `for i in xrange(0, activate_up_to_index + 1)', i 1-based here
RECURSIVE activate_loop(_, _, _, _, _, _)
activate_loop(s, inactive_supporters, i, last, starving_peers, t) ==
    IF i > last THEN s
    ELSE LET s1 == activate_supporter(s, inactive_supporters[i])
             r == assign_to_first_loop(s1, inactive_supporters[1], starving_peers, <<>>, t)
             left == FilterSeq(starving_peers,
                               { h \in DOMAIN r.s.peers :
                                     ~peer_in(r.s, PeerKeyOf(r.s, h), r.assigned_peers) })
         IN  activate_loop(r.s, inactive_supporters, i + 1, last, left, t)

\* activate_supporters_and_assign_peers
activate_supporters_and_assign_peers(s, inactive_supporters, activate_up_to_index, starving_peers, t) ==
    IF activate_up_to_index >= 0
    THEN order_active_supporters(
             activate_loop(s, inactive_supporters, 1, activate_up_to_index + 1,
                           starving_peers, t))
    ELSE s

\* SupporterMonitor._check_for_activation_of_new_supporters
check_for_activation_of_new_supporters(s, t) ==
    LET starving_peers == filter_peers_by_state(s, StarvingState)
        inactive_supporters == sorted_list_of_inactive_supporters(s)
        activate_up_to_index ==
            retrieve_activation_index(s, starving_peers, inactive_supporters)
    IN  activate_supporters_and_assign_peers(s, inactive_supporters, activate_up_to_index,
                                             starving_peers, t)

\* the list of (id, ip, port) triples dispatch_peer_lists gathers for sh
peers_to_be_unchoked(s, sh) ==
    [ i \in DOMAIN s.sups[sh].supported_peers |-> PeerKeyOf(s, s.sups[sh].supported_peers[i]) ]

\* a dispatch that pushes the roster of every registered supporter, updated
\* or not
RECURSIVE dispatch_loop_all(_, _, _, _)
dispatch_loop_all(s, supporters, push_fails, calls) ==
    IF supporters = <<>> THEN [s |-> s, calls |-> calls]
    ELSE LET sh == Head(supporters)
         IN  dispatch_loop_all(reset_update_counter(s, sh), Tail(supporters), push_fails,
                 Append(calls, [ supporter |-> SupKeyOf(s, sh),
                                 peer_list |-> peers_to_be_unchoked(s, sh),
                                 failed |-> sh \in push_fails ]))

\* SupporteeListDispatcher.dispatch_peer_lists over the registered supporters
\* left; push_fails holds the supporters whose receive_peer_list call raises.
\* Returns the state and the calls made, in order.
RECURSIVE dispatch_loop(_, _, _, _)
dispatch_loop(s, supporters, push_fails, calls) ==
    IF supporters = <<>> THEN [s |-> s, calls |-> calls]
    ELSE LET sh == Head(supporters)
         IN  IF ~s.sups[sh].updated
             THEN dispatch_loop(s, Tail(supporters), push_fails, calls)
             ELSE dispatch_loop(reset_update_counter(s, sh), Tail(supporters), push_fails,
                      Append(calls, [ supporter |-> SupKeyOf(s, sh),
                                      peer_list |-> peers_to_be_unchoked(s, sh),
                                      failed |-> sh \in push_fails ]))

dispatch_peer_lists(s, push_fails) == dispatch_loop(s, s.monitored_supporters, push_fails, <<>>)

\* SupporterMonitor.update_states, first part: from _remove_timedout_peers to
\* _enforce_update_of_monitored_supporters (no exception raised)
update_states_refresh(s, t, not_responding) ==
    LET s1 == remove_timedout_peers(s, t)
        s2 == query_all_supporters(s1, not_responding)
        s3 == remove_dead_supporters(s2)
        s4 == enforce_update_of_monitored_peers(s3, t)
    IN  enforce_update_of_monitored_supporters(s4)

\* SupporterMonitor.update_states, second part: from
\* _assign_starving_peers_to_active_supporters to dispatch_peer_lists.
\* Returns the state and the receive_peer_list calls made.
update_states_assign(s, t, push_fails) ==
    LET s6 == assign_starving_peers_to_active_supporters(s, t)
        s7 == check_for_activation_of_new_supporters(s6, t)
    IN  dispatch_peer_lists(s7, push_fails)

\* SupporterMonitor.update_states between acquiring and releasing the lock.
\* Returns the state, the receive_peer_list calls made and whether an
\* exception left through the finally clause.
update_states(s, t, not_responding, push_fails) ==
    IF remove_timedout_peers_raises(s)
    THEN [s |-> s, calls |-> <<>>, raised |-> TRUE]
    ELSE LET r == update_states_assign(update_states_refresh(s, t, not_responding),
                                       t, push_fails)
         IN  [s |-> r.s, calls |-> r.calls, raised |-> FALSE]

(***************************************************************************)
(* threading.RLock, as SupporterMonitor.__init__ creates it                *)
(***************************************************************************)
FreeLock == [owner |-> "none", count |-> 0]

\* a lock that is not reentrant: its owner waits for it as well
lock_can_acquire_once(l, thread) == l.owner = "none"

\* acquire() returns at once for the owner and when nobody holds the lock
rlock_can_acquire(l, thread) == l.owner \in {"none", thread}

\* RLock.acquire
rlock_acquire(l, thread) == [owner |-> thread, count |-> l.count + 1]

\* RLock.release
rlock_release(l) == IF l.count = 1 THEN FreeLock ELSE [l EXCEPT !.count = @ - 1]

\* no ingress operation is running
IngressIdle == [at |-> "idle", call |-> <<>>]

(***************************************************************************)
(* The state machine                                                       *)
(***************************************************************************)
VARIABLES
    peers,                  \* heap of MonitoredPeer objects
    sups,                   \* heap of MonitoredSupporter objects
    monitored_peers,        \* SupporterMonitor._monitored_peers
    monitored_supporters,   \* SupporterMonitor._monitored_supporters
    active_supporters,      \* SupporterMonitor._active_supporters
    dead_supporters,        \* SupporterMonitor._dead_supporters
    number_of_assignments,  \* SupporterMonitor.number_of_assignments
    update_scheduled,       \* a threading.Timer for update_states is pending
    now,                    \* time.time()
    tick_pc,                \* where the thread running update_states is
    lock,                   \* SupporterMonitor._lock: its owner and hold count
    ingress_pc              \* where the thread running an ingress operation is

vars == <<peers, sups, monitored_peers, monitored_supporters, active_supporters,
          dead_supporters, number_of_assignments, update_scheduled, now, tick_pc, lock, ingress_pc>>

\* the monitor's state as the record the operators above work on
St ==
    [ peers |-> peers, sups |-> sups,
      monitored_peers |-> monitored_peers,
      monitored_supporters |-> monitored_supporters,
      active_supporters |-> active_supporters,
      dead_supporters |-> dead_supporters,
      number_of_assignments |-> number_of_assignments ]

\* the monitor's state becomes s
Becomes(s) ==
    LET c == Collect(s)
    IN  /\ peers' = c.peers
        /\ sups' = c.sups
        /\ monitored_peers' = c.monitored_peers
        /\ monitored_supporters' = c.monitored_supporters
        /\ active_supporters' = c.active_supporters
        /\ dead_supporters' = c.dead_supporters
        /\ number_of_assignments' = c.number_of_assignments

\* SupporterMonitor.__init__
Init ==
    /\ peers = <<>>
    /\ sups = <<>>
    /\ monitored_peers = <<>>
    /\ monitored_supporters = <<>>
    /\ active_supporters = <<>>
    /\ dead_supporters = <<>>
    /\ number_of_assignments = <<>>
    /\ update_scheduled = TRUE
    /\ now = StartTime
    /\ tick_pc = "idle"
    /\ lock = FreeLock
    /\ ingress_pc = IngressIdle

\* time passes
Advance ==
    /\ now + TimeStep <= MaxTime
    /\ now' = now + TimeStep
    /\ UNCHANGED <<peers, sups, monitored_peers, monitored_supporters, active_supporters,
                   dead_supporters, number_of_assignments, update_scheduled, tick_pc, lock, ingress_pc>>

RegisterPeer(ident, peer_type) ==
    /\ Becomes(register_monitored_peer(St, ident, peer_type, now))
    /\ UNCHANGED <<update_scheduled, now, tick_pc, lock, ingress_pc>>

UnregisterPeer(ident) ==
    /\ Becomes(unregister_monitored_peer(St, <<ident.id, ident.ip, ident.port>>))
    /\ UNCHANGED <<update_scheduled, now, tick_pc, lock, ingress_pc>>

RegisterSupporter(ident) ==
    /\ Becomes(register_monitored_supporter(St, ident))
    /\ UNCHANGED <<update_scheduled, now, tick_pc, lock, ingress_pc>>

\* the caller passes a registered supporter object
UnregisterSupporter(sh) ==
    /\ sh \in Range(monitored_supporters)
    /\ Becomes(unregister_monitored_supporter(St, sh))
    /\ UNCHANGED <<update_scheduled, now, tick_pc, lock, ingress_pc>>

\* the peer the message is dispatched to has room left in its counter
RequestsBelowBound(msg_type, peer_id) ==
    msg_type = MSG_SUPPORT_REQUIRED =>
        \A h \in Range(monitored_peers) :
            peers[h].id = peer_id => peers[h].support_requests < MaxRequests

ReceivedPeerMessage(msg_type, peer_id) ==
    /\ RequestsBelowBound(msg_type, peer_id)
    /\ Becomes(received_peer_message(St, msg_type, peer_id, now))
    /\ UNCHANGED <<update_scheduled, now, tick_pc, lock, ingress_pc>>

AssignmentsBelowBound ==
    \A id \in DOMAIN number_of_assignments : number_of_assignments[id] < MaxAssignments

\* the Timer fires: update_states, then schedule_next_asynchronous_update
\* unless an exception left update_states
UpdateStates(not_responding, push_fails) ==
    /\ update_scheduled
    /\ tick_pc = "idle"
    /\ AssignmentsBelowBound
    /\ Len(dead_supporters) + Cardinality(not_responding) <= MaxDead
    /\ LET r == update_states(St, now, not_responding, push_fails)
       IN  /\ Becomes(r.s)
           /\ update_scheduled' = ~r.raised
    /\ UNCHANGED <<now, tick_pc, lock, ingress_pc>>

Next ==
    \/ Advance
    \/ \E ident \in PeerIdents \cup BadPeerIdents, peer_type \in PeerTypeInputs :
           RegisterPeer(ident, peer_type)
    \/ \E ident \in PeerIdents : UnregisterPeer(ident)
    \/ \E ident \in SupIdents \cup BadSupIdents : RegisterSupporter(ident)
    \/ \E sh \in DOMAIN sups : UnregisterSupporter(sh)
    \/ \E msg_type \in IngressMsgTypes, peer_id \in PeerIdInputs :
           ReceivedPeerMessage(msg_type, peer_id)
    \/ UpdateStates({}, {})

Spec == Init /\ [][Next]_vars

(***************************************************************************)
(* SpecCrowd: several peers and both supporters within one second of the   *)
(* clock.                                                                  *)
(***************************************************************************)
NextCrowd ==
    \/ \E ident \in CrowdPeerIdents : RegisterPeer(ident, PEER_TYPE_LEECHER)
    \/ \E ident \in CrowdSupIdents : RegisterSupporter(ident)
    \/ \E peer_id \in CrowdPeerIds :
           ReceivedPeerMessage(MSG_SUPPORT_REQUIRED, peer_id)
    \/ UpdateStates({}, {})

SpecCrowd == Init /\ [][NextCrowd]_vars

(***************************************************************************)
(* SpecOrder: four peers and the two supporters that offer two slots.  A   *)
(* peer registers and sends its PEER_REQUIRED_MSGS support requests in a   *)
(* row, the peers arrive in the order of their ports, the first peer also  *)
(* sends SUPPORT_NOT_NEEDED and asks for support again, and the clock is   *)
(* advanced once.                                                          *)
(***************************************************************************)
\* time passes, once
AdvanceOnce ==
    /\ now = StartTime
    /\ now' = now + TimeStep
    /\ UNCHANGED <<peers, sups, monitored_peers, monitored_supporters, active_supporters,
                   dead_supporters, number_of_assignments, update_scheduled, tick_pc, lock, ingress_pc>>

\* received_peer_message(MSG_SUPPORT_REQUIRED, peer_id), n times in a row
RECURSIVE request_burst(_, _, _, _)
request_burst(s, peer_id, t, n) ==
    IF n = 0 THEN s
    ELSE request_burst(received_peer_message(s, MSG_SUPPORT_REQUIRED, peer_id, t),
                       peer_id, t, n - 1)

\* the next peer registers and sends PEER_REQUIRED_MSGS requests
JoinAndRequest(ident) ==
    /\ ~peer_in(St, <<ident.id, ident.ip, ident.port>>, monitored_peers)
    /\ \A other \in OrderPeerIdents :
           other.port < ident.port =>
               peer_in(St, <<other.id, other.ip, other.port>>, monitored_peers)
    /\ Becomes(request_burst(register_monitored_peer(St, ident, PEER_TYPE_LEECHER, now),
                             ident.id, now, PEER_REQUIRED_MSGS))
    /\ UNCHANGED <<update_scheduled, now, tick_pc, lock, ingress_pc>>

\* a registered peer that has no request counted sends PEER_REQUIRED_MSGS
\* requests
RequestBurst(peer_id) ==
    /\ \E h \in Range(monitored_peers) :
           peers[h].id = peer_id /\ peers[h].support_requests = 0
    /\ Becomes(request_burst(St, peer_id, now, PEER_REQUIRED_MSGS))
    /\ UNCHANGED <<update_scheduled, now, tick_pc, lock, ingress_pc>>

NextOrder ==
    \/ AdvanceOnce
    \/ \E ident \in OrderPeerIdents : JoinAndRequest(ident)
    \/ \E ident \in OrderSupIdents : RegisterSupporter(ident)
    \/ ReceivedPeerMessage(MSG_SUPPORT_NOT_NEEDED, "a")
    \/ RequestBurst("a")
    \/ UpdateStates({}, {})

SpecOrder == Init /\ [][NextOrder]_vars

(***************************************************************************)
(* SpecReap: two peers and the supporters with two slots over a clock that *)
(* reaches PEER_REMOVAL_TIME: the instants are StartTime, one second       *)
(* later, and the two instants PEER_REMOVAL_TIME - 1 and PEER_REMOVAL_TIME *)
(* seconds after StartTime, so that the last message of a peer is 0, 1,    *)
(* 43, 44 or 45 seconds old.  Peer a sends its support requests            *)
(* PEER_REQUIRED_MSGS in a row.                                            *)
(***************************************************************************)
ReapClock ==
    <<StartTime, StartTime + 1, StartTime + PEER_REMOVAL_TIME - 1,
      StartTime + PEER_REMOVAL_TIME>>

\* time passes up to the next instant
AdvanceReap ==
    /\ \E i \in 1..(Len(ReapClock) - 1) : now = ReapClock[i] /\ now' = ReapClock[i + 1]
    /\ UNCHANGED <<peers, sups, monitored_peers, monitored_supporters, active_supporters,
                   dead_supporters, number_of_assignments, update_scheduled, tick_pc, lock, ingress_pc>>

NextReap ==
    \/ AdvanceReap
    \/ \E ident \in CrowdPeerIdents : RegisterPeer(ident, PEER_TYPE_LEECHER)
    \/ \E ident \in OrderSupIdents : RegisterSupporter(ident)
    \/ RequestBurst("a")
    \/ UpdateStates({}, {})

SpecReap == Init /\ [][NextReap]_vars

(***************************************************************************)
(* SpecServe: three peers register in the order of their ports and send    *)
(* their requests later, in any order; the second one may decline support  *)
(* and ask again.  One supporter with two slots is registered.             *)
(***************************************************************************)
ServePeerIdents == { x \in OrderPeerIdents : x.id # "e" }
ServePeerIds == { x.id : x \in ServePeerIdents }
ServeSupIdents == { x \in SupIdents : x.max_peer = 2 }

\* register_monitored_peer for the next peer in the order of the ports
JoinInOrder(ident) ==
    /\ ~peer_in(St, <<ident.id, ident.ip, ident.port>>, monitored_peers)
    /\ \A other \in ServePeerIdents :
           other.port < ident.port =>
               peer_in(St, <<other.id, other.ip, other.port>>, monitored_peers)
    /\ RegisterPeer(ident, PEER_TYPE_LEECHER)

NextServe ==
    \/ AdvanceOnce
    \/ \E ident \in ServePeerIdents : JoinInOrder(ident)
    \/ \E ident \in ServeSupIdents : RegisterSupporter(ident)
    \/ \E peer_id \in ServePeerIds : RequestBurst(peer_id)
    \/ ReceivedPeerMessage(MSG_SUPPORT_NOT_NEEDED, "b")
    \/ UpdateStates({}, {})

SpecServe == Init /\ [][NextServe]_vars

(***************************************************************************)
(* SpecFaults: supporters that stop answering the is_alive() probe or the  *)
(* receive_peer_list() push, supporters unregistered by their caller, two  *)
(* peers with one ID, and a supporter registered with min_peer 0.          *)
(***************************************************************************)
\* the sets of supporters a tick may find not responding
ProbeOutcomes == SUBSET Range(monitored_supporters)

NextFaults ==
    \/ \E ident \in FaultPeerIdents : RegisterPeer(ident, PEER_TYPE_LEECHER)
    \/ \E ident \in FaultSupIdents : RegisterSupporter(ident)
    \/ \E sh \in DOMAIN sups : UnregisterSupporter(sh)
    \/ ReceivedPeerMessage(MSG_SUPPORT_REQUIRED, "a")
    \/ \E not_responding \in ProbeOutcomes, push_fails \in ProbeOutcomes :
           UpdateStates(not_responding, push_fails)

SpecFaults == Init /\ [][NextFaults]_vars

(***************************************************************************)
(* SpecLock: the thread of the Timer runs update_states in two steps while *)
(* the threads of the callers run the ingress operations.  tick_pc is      *)
(* "refreshed" while the tick is between _enforce_update_of_monitored_     *)
(* supporters and _assign_starving_peers_to_active_supporters, holding     *)
(* the RLock.  An operation that acquires the RLock waits until the tick   *)
(* has released it; an operation that does not, runs at once.              *)
(***************************************************************************)
\* the lock is never held
lock_never_held == FALSE

\* SupporterMonitor._lock is held by the thread that runs update_states
lock_held == tick_pc # "idle"

\* update_states from self._lock.acquire() to the roster refresh; an exception
\* leaves through the finally clause and no further tick is scheduled
TickBegin ==
    /\ update_scheduled
    /\ ~lock_held
    /\ AssignmentsBelowBound
    /\ IF remove_timedout_peers_raises(St)
       THEN /\ update_scheduled' = FALSE
            /\ UNCHANGED <<peers, sups, monitored_peers, monitored_supporters,
                           active_supporters, dead_supporters, number_of_assignments,
                           now, tick_pc, lock, ingress_pc>>
       ELSE /\ Becomes(update_states_refresh(St, now, {}))
            /\ tick_pc' = "refreshed"
            /\ UNCHANGED <<update_scheduled, now, lock, ingress_pc>>

\* update_states from the assignment to self._lock.release(), then
\* schedule_next_asynchronous_update
TickEnd ==
    /\ tick_pc = "refreshed"
    /\ Becomes(update_states_assign(St, now, {}).s)
    /\ tick_pc' = "idle"
    /\ UNCHANGED <<update_scheduled, now, lock, ingress_pc>>

NextLock ==
    \/ \E ident \in PeerIdents : ~lock_held /\ RegisterPeer(ident, PEER_TYPE_LEECHER)
    \/ \E ident \in PeerIdents : UnregisterPeer(ident)
    \/ \E ident \in SupIdents : ~lock_held /\ RegisterSupporter(ident)
    \/ \E sh \in DOMAIN sups : UnregisterSupporter(sh)
    \/ \E msg_type \in IngressMsgTypes :
           ~lock_held /\ ReceivedPeerMessage(msg_type, "a")
    \/ TickBegin
    \/ TickEnd

SpecLock == Init /\ [][NextLock]_vars

(***************************************************************************)
(* SpecOrderFair: the peers and supporters of SpecOrder with the tick run  *)
(* in two steps by the thread of the Timer.  Every tick ends by scheduling *)
(* the next one (schedule_next_asynchronous_update), so the Timer thread   *)
(* keeps taking its steps.                                                 *)
(***************************************************************************)
\* the thread of the Timer moves on: a pending tick begins (it would raise
\* before the schedule is renewed, otherwise), a tick that has begun ends
TimerMoves ==
    /\ tick_pc = "idle" => (update_scheduled /\ AssignmentsBelowBound)
    /\ tick_pc' \in {"idle", "refreshed"} \ {tick_pc}

NextOrderTicks ==
    \/ AdvanceOnce
    \/ \E ident \in OrderPeerIdents : ~lock_held /\ JoinAndRequest(ident)
    \/ \E ident \in OrderSupIdents : ~lock_held /\ RegisterSupporter(ident)
    \/ ~lock_held /\ ReceivedPeerMessage(MSG_SUPPORT_NOT_NEEDED, "a")
    \/ ~lock_held /\ RequestBurst("a")
    \/ TickBegin
    \/ TickEnd

SpecOrderFair == Init /\ [][NextOrderTicks]_vars /\ WF_tick_pc(TimerMoves)

(***************************************************************************)
(* SpecDeclineFair: one peer that asks for support at the start, declines  *)
(* it later and may be registered again at any time; one supporter.  The   *)
(* clock passes the peer timeout twice and then the removal time; the tick *)
(* is run in two steps by the thread of the Timer.                         *)
(***************************************************************************)
DeclineClock ==
    <<StartTime, StartTime + PEER_TIMEOUT_BOUND, StartTime + 2 * PEER_TIMEOUT_BOUND,
      StartTime + 2 * PEER_TIMEOUT_BOUND + PEER_REMOVAL_TIME>>

\* time passes
AdvanceDecline ==
    /\ \E i \in 1..(Len(DeclineClock) - 1) :
           now = DeclineClock[i] /\ now' = DeclineClock[i + 1]
    /\ UNCHANGED <<peers, sups, monitored_peers, monitored_supporters, active_supporters,
                   dead_supporters, number_of_assignments, update_scheduled, tick_pc, lock,
                   ingress_pc>>

NextDecline ==
    \/ AdvanceDecline
    \/ \E ident \in PeerIdents : ~lock_held /\ RegisterPeer(ident, PEER_TYPE_LEECHER)
    \/ \E ident \in ServeSupIdents : ~lock_held /\ RegisterSupporter(ident)
    \/ ~lock_held /\ now = StartTime /\ RequestBurst("a")
    \/ ~lock_held /\ ReceivedPeerMessage(MSG_SUPPORT_NOT_NEEDED, "a")
    \/ TickBegin
    \/ TickEnd

SpecDeclineFair ==
    Init /\ [][NextDecline]_vars /\ WF_tick_pc(TimerMoves) /\ WF_now(AdvanceDecline)

(***************************************************************************)
(* SpecHold: the RLock followed acquisition by acquisition.  One thread    *)
(* runs the ingress operations that take the lock, the thread of the Timer *)
(* runs update_states.  An operation enters by acquiring the lock, runs    *)
(* its try block, and leaves through its finally clause.                   *)
(***************************************************************************)
Rest == <<peers, sups, monitored_peers, monitored_supporters, active_supporters,
          dead_supporters, number_of_assignments, update_scheduled, now>>

\* self._lock.acquire() of register_monitored_peer, register_monitored_supporter
\* and received_peer_message, called from outside the monitor
Enter(op, call) ==
    /\ ingress_pc.at = "idle"
    /\ rlock_can_acquire(lock, "ingress")
    /\ lock' = rlock_acquire(lock, "ingress")
    /\ ingress_pc' = [at |-> op, call |-> call]
    /\ UNCHANGED <<Rest, tick_pc>>

\* register_monitored_peer: the constructor raises, or the peer is built and
\* received_peer_message is called
ConstructPeer ==
    /\ ingress_pc.at = "register_monitored_peer"
    /\ ingress_pc' = [ingress_pc EXCEPT !.at =
                          IF PeerArgsValid(ingress_pc.call[1], ingress_pc.call[2])
                          THEN "nested_acquire" ELSE "finally"]
    /\ UNCHANGED <<Rest, tick_pc, lock>>

\* self._lock.acquire() of received_peer_message, called by
\* register_monitored_peer
NestedAcquire ==
    /\ ingress_pc.at = "nested_acquire"
    /\ rlock_can_acquire(lock, "ingress")
    /\ lock' = rlock_acquire(lock, "ingress")
    /\ ingress_pc' = [ingress_pc EXCEPT !.at = "nested_dispatch"]
    /\ UNCHANGED <<Rest, tick_pc>>

\* the registration takes effect, PEER_REGISTERED is dispatched and
\* received_peer_message releases the lock in its finally clause
NestedDispatch ==
    /\ ingress_pc.at = "nested_dispatch"
    /\ Becomes(register_monitored_peer(St, ingress_pc.call[1], ingress_pc.call[2], now))
    /\ lock' = rlock_release(lock)
    /\ ingress_pc' = [ingress_pc EXCEPT !.at = "finally"]
    /\ UNCHANGED <<update_scheduled, now, tick_pc>>

\* the try block of received_peer_message
DispatchMessage ==
    /\ ingress_pc.at = "received_peer_message"
    /\ Becomes(received_peer_message(St, ingress_pc.call[1], ingress_pc.call[2], now))
    /\ ingress_pc' = [ingress_pc EXCEPT !.at = "finally"]
    /\ UNCHANGED <<update_scheduled, now, tick_pc, lock>>

\* the try block of register_monitored_supporter; the constructor may raise
ConstructSupporter ==
    /\ ingress_pc.at = "register_monitored_supporter"
    /\ Becomes(register_monitored_supporter(St, ingress_pc.call[1]))
    /\ ingress_pc' = [ingress_pc EXCEPT !.at = "finally"]
    /\ UNCHANGED <<update_scheduled, now, tick_pc, lock>>

\* finally: self._lock.release()
Leave ==
    /\ ingress_pc.at = "finally"
    /\ lock' = rlock_release(lock)
    /\ ingress_pc' = IngressIdle
    /\ UNCHANGED <<Rest, tick_pc>>

\* update_states: self._lock.acquire()
TickAcquire ==
    /\ update_scheduled
    /\ tick_pc = "idle"
    /\ AssignmentsBelowBound
    /\ rlock_can_acquire(lock, "timer")
    /\ lock' = rlock_acquire(lock, "timer")
    /\ tick_pc' = "locked"
    /\ UNCHANGED <<Rest, ingress_pc>>

\* the try block of update_states
TickRun ==
    /\ tick_pc = "locked"
    /\ LET r == update_states(St, now, {}, {})
       IN  /\ Becomes(r.s)
           /\ tick_pc' = IF r.raised THEN "raised" ELSE "done"
    /\ UNCHANGED <<update_scheduled, now, lock, ingress_pc>>

\* finally: self._lock.release(); then schedule_next_asynchronous_update,
\* which an exception skips
TickRelease ==
    /\ tick_pc \in {"raised", "done"}
    /\ lock' = rlock_release(lock)
    /\ update_scheduled' = (tick_pc = "done")
    /\ tick_pc' = "idle"
    /\ UNCHANGED <<peers, sups, monitored_peers, monitored_supporters, active_supporters,
                   dead_supporters, number_of_assignments, now, ingress_pc>>

\* an ingress operation that has entered goes on
IngressContinue ==
    \/ ConstructPeer
    \/ NestedAcquire
    \/ NestedDispatch
    \/ DispatchMessage
    \/ ConstructSupporter
    \/ Leave

\* a tick that has acquired the lock goes on
TickContinue == TickRun \/ TickRelease

NextHold ==
    \/ \E ident \in FaultPeerIdents \cup BadPeerIdents :
           Enter("register_monitored_peer", <<ident, PEER_TYPE_LEECHER>>)
    \/ \E ident \in SupIdents \cup BadSupIdents :
           Enter("register_monitored_supporter", <<ident>>)
    \/ \E msg_type \in IngressMsgTypes :
           /\ RequestsBelowBound(msg_type, "a")
           /\ Enter("received_peer_message", <<msg_type, "a">>)
    \/ IngressContinue
    \/ TickAcquire
    \/ TickContinue

SpecHold == Init /\ [][NextHold]_vars

\* the places of the thread that runs an ingress operation
IngressPlaces ==
    { "register_monitored_peer", "nested_acquire", "nested_dispatch",
      "received_peer_message", "register_monitored_supporter", "finally" }

\* the thread inside an ingress operation moves on to its next place; at the
\* nested acquisition it can do so once the lock lets it in
IngressMoves ==
    /\ ingress_pc.at # "idle"
    /\ ingress_pc.at = "nested_acquire" => rlock_can_acquire(lock, "ingress")
    /\ ingress_pc' \in {IngressIdle} \cup
           { [ingress_pc EXCEPT !.at = a] : a \in IngressPlaces \ {ingress_pc.at} }

\* the thread of the Timer, holding the lock, moves on to its next place
TickMoves ==
    /\ tick_pc # "idle"
    /\ tick_pc' \in {"raised", "done", "idle"} \ {tick_pc}

\* a thread that is inside an operation and not waiting is scheduled
SpecHoldFair == SpecHold /\ WF_ingress_pc(IngressMoves) /\ WF_tick_pc(TickMoves)

(***************************************************************************)
(* Properties                                                              *)
(***************************************************************************)
\* the arrows of the peer state machine
Arrows ==
    { <<DefaultState, WatchedState>>, <<WatchedState, DefaultState>>,
      <<WatchedState, StarvingState>>, <<StarvingState, DefaultState>>,
      <<StarvingState, SupportedState>>, <<SupportedState, DefaultState>>,
      <<SupportedState, StarvingState>> }

\* the span of a non-empty request window, in milliseconds
SpanMs(w) == (w[Len(w)] - w[1]) * 1000

\* C1: every registered supporter's roster holds at most max_peer peers
\* (available_slots() is never negative), also after a tick that activates
\* several supporters at once.
C1_RosterWithinMaxPeer ==
    \A sh \in Range(monitored_supporters) :
        Len(sups[sh].supported_peers) <= sups[sh].max_peer

\* C2: a registered peer is in the roster of at most one registered
\* supporter.  (The rosters counted are those that hold the registered object
\* itself, not merely an object equal to it.)
C2_PeerInAtMostOneRoster ==
    \A h \in Range(monitored_peers) :
        Cardinality({ sh \in Range(monitored_supporters) :
                        h \in Range(sups[sh].supported_peers) }) <= 1

\* C3: every change of the state of a registered peer, by a message, a tick
\* or the removal of a supporter, follows one of the arrows.  (Of the one
\* peer identity of Spec at most one object is registered; a registry that is
\* non-empty before and after a step holds the same object.)
C3_StateChangesFollowArrows ==
    [][ (monitored_peers # <<>> /\ monitored_peers' # <<>>) =>
            LET before == peers[monitored_peers[1]].state
                after == peers'[monitored_peers'[1]].state
            IN  before = after \/ <<before, after>> \in Arrows ]_vars

\* C4: a registered peer in Default has support-request counter 0 and an
\* empty request window.
C4_DefaultHasResetCycle ==
    \A h \in Range(monitored_peers) :
        peers[h].state = DefaultState =>
            peers[h].support_requests = 0 /\ peers[h].ts_list = <<>>

\* C5: a registered peer in Default that receives SUPPORT_REQUIRED is in
\* Watched once the message is processed.
C5_DefaultToWatchedOnRequest ==
    \A h \in Range(monitored_peers) :
        peers[h].state = DefaultState =>
            receive_msg(peers[h], MSG_SUPPORT_REQUIRED, now).state = WatchedState

\* C6: a registered peer in Watched that receives SUPPORT_REQUIRED is in
\* Starving afterwards exactly when the counter, the message counted, is at
\* least PEER_REQUIRED_MSGS and the window, the message recorded, spans at
\* most PEER_STATUS_APPROVAL_TIME; otherwise it is still in Watched.
C6_WatchedToStarving ==
    \A h \in Range(monitored_peers) :
        peers[h].state = WatchedState =>
            LET q == receive_msg(peers[h], MSG_SUPPORT_REQUIRED, now)
                admitted == /\ q.support_requests >= PEER_REQUIRED_MSGS
                            /\ SpanMs(q.ts_list) <= PEER_STATUS_APPROVAL_TIME_MS
            IN  /\ q.support_requests = peers[h].support_requests + 1
                /\ q.ts_list # <<>> /\ q.ts_list[Len(q.ts_list)] = now
                /\ q.state = IF admitted THEN StarvingState ELSE WatchedState

\* a peer that stayed in Watched on a request that brought the counter to
\* PEER_REQUIRED_MSGS or more, the window spanning more than the bound
C6_Witness ==
    \E h \in Range(monitored_peers) :
        /\ peers[h].state = WatchedState
        /\ peers[h].last_received_msg = MSG_SUPPORT_REQUIRED
        /\ peers[h].ts_last_received_msg = now
        /\ peers[h].support_requests >= PEER_REQUIRED_MSGS
        /\ SpanMs(peers[h].ts_list) > PEER_STATUS_APPROVAL_TIME_MS

\* C7: a registered peer in Watched or Starving that receives
\* SUPPORT_NOT_NEEDED is in Default once the message is processed, with
\* counter 0 and an empty window, the cooldown timer not having run out.
C7_NotNeededToDefault ==
    \A h \in Range(monitored_peers) :
        peers[h].state \in {WatchedState, StarvingState} =>
            LET q == receive_msg(peers[h], MSG_SUPPORT_NOT_NEEDED, now)
            IN  /\ q.state = DefaultState
                /\ q.support_requests = 0
                /\ q.ts_list = <<>>

\* a peer in Starving with requests counted whose cooldown timer starts with
\* the SUPPORT_NOT_NEEDED that puts it in Default
C7_Witness ==
    \E h \in Range(monitored_peers) :
        /\ peers[h].state = StarvingState
        /\ peers[h].support_requests >= PEER_REQUIRED_MSGS
        /\ peers[h].timeout_timer = None
        /\ LET q == receive_msg(peers[h], MSG_SUPPORT_NOT_NEEDED, now)
           IN  q.state = DefaultState /\ q.timeout_timer = now

\* C8: a registered peer in Supported that is alive is put in Default by a
\* transition step (of a tick, or after a message) exactly when its last
\* message is SUPPORT_NOT_NEEDED and the cooldown timer was started at least
\* peer_timeout ago; otherwise the step leaves it in Supported.
C8_SupportedCooldown ==
    \A h \in Range(monitored_peers) :
        LET p == peers[h]
            alive == p.ts_list = <<>>
                     \/ now - p.ts_list[Len(p.ts_list)] < IS_ALIVE_TIMEOUT_BOUND
            cooled_down == p.timeout_timer # None
                           /\ now - p.timeout_timer >= PEER_TIMEOUT_BOUND
            Left(b) == IF b THEN DefaultState ELSE SupportedState
        IN  (p.state = SupportedState /\ alive) =>
                /\ transition(p, now).state
                       = Left(p.last_received_msg = MSG_SUPPORT_NOT_NEEDED /\ cooled_down)
                /\ enforce_update_of_peer(p, now).state = transition(p, now).state
                /\ receive_msg(p, MSG_SUPPORT_NOT_NEEDED, now).state = Left(cooled_down)
                /\ \A msg_type \in MsgTypes \ {MSG_SUPPORT_NOT_NEEDED} :
                       receive_msg(p, msg_type, now).state = SupportedState

\* a peer in Supported whose cooldown timer was started exactly peer_timeout
\* ago: the transition step of a tick puts it in Default
C8_Witness ==
    \E h \in Range(monitored_peers) :
        /\ peers[h].state = SupportedState
        /\ peers[h].last_received_msg = MSG_SUPPORT_NOT_NEEDED
        /\ peers[h].timeout_timer # None
        /\ now - peers[h].timeout_timer = PEER_TIMEOUT_BOUND
        /\ transition(peers[h], now).state = DefaultState

\* C9: one transition step puts a registered peer in Watched, Starving or
\* Supported whose last request is at least is_alive_timeout old in Default,
\* with counter 0 and an empty window, whatever its last message.
C9_NotAliveToDefault ==
    \A h \in Range(monitored_peers) :
        LET p == peers[h]
        IN  ( /\ p.state \in {WatchedState, StarvingState, SupportedState}
              /\ p.ts_list # <<>>
              /\ now - p.ts_list[Len(p.ts_list)] >= IS_ALIVE_TIMEOUT_BOUND ) =>
                LET q == transition(p, now)
                IN  /\ q.state = DefaultState
                    /\ q.support_requests = 0
                    /\ q.ts_list = <<>>

\* C10: the request window of every peer holds at most PEER_REQUIRED_MSGS
\* timestamps, in nondecreasing order, and a further request drops the
\* oldest one only, and only from a full window.
C10_RequestWindow ==
    \A h \in DOMAIN peers :
        LET w == peers[h].ts_list
            after == received_support_required_message(peers[h], now).ts_list
        IN  /\ Len(w) <= PEER_REQUIRED_MSGS
            /\ \A i, j \in DOMAIN w : i <= j => w[i] <= w[j]
            /\ after = IF Len(w) = PEER_REQUIRED_MSGS
                       THEN Tail(w) \o <<now>> ELSE w \o <<now>>

\* a full window of different times that a request has gone out of
C10_Witness ==
    \E h \in Range(monitored_peers) :
        /\ Len(peers[h].ts_list) = PEER_REQUIRED_MSGS
        /\ peers[h].support_requests > PEER_REQUIRED_MSGS
        /\ peers[h].ts_list[1] < peers[h].ts_list[PEER_REQUIRED_MSGS]
        /\ peers[h].ts_list[PEER_REQUIRED_MSGS] < now

\* The activation phase of a tick run in the current state: the monitor as
\* _check_for_activation_of_new_supporters finds it, and as it leaves it.
BeforeActivation ==
    assign_starving_peers_to_active_supporters(update_states_refresh(St, now, {}), now)
AfterActivation == check_for_activation_of_new_supporters(BeforeActivation, now)

\* the registered peers in Starving and the registered supporters that are
\* not active, in the monitor s
StarvingIn(s) == { h \in Range(s.monitored_peers) : s.peers[h].state = StarvingState }
InactiveIn(s) ==
    { sh \in Range(s.monitored_supporters) :
          \A i \in DOMAIN s.active_supporters :
              SupporterKey(s.sups[s.active_supporters[i]]) # SupporterKey(s.sups[sh]) }
\* x is considered before y: ascending min_peer, then the order of registration
ConsideredBefore(s, x, y) ==
    \/ s.sups[x].min_peer < s.sups[y].min_peer
    \/ /\ s.sups[x].min_peer = s.sups[y].min_peer
       /\ IndexIn(s.monitored_supporters, x) < IndexIn(s.monitored_supporters, y)
\* the free slots of the supporters in S
RECURSIVE FreeSlots(_, _)
FreeSlots(s, S) ==
    IF S = {} THEN 0
    ELSE LET x == CHOOSE x \in S : TRUE
         IN  (s.sups[x].max_peer - Len(s.sups[x].supported_peers)) + FreeSlots(s, S \ {x})
\* the starving peers left for x cover its min_peer
Covers(s, x) ==
    Cardinality(StarvingIn(s))
        - FreeSlots(s, { y \in InactiveIn(s) : ConsideredBefore(s, y, x) })
      >= s.sups[x].min_peer
\* x and every inactive supporter considered before it are covered
Accepted(s, x) ==
    /\ x \in InactiveIn(s)
    /\ \A y \in InactiveIn(s) : (y = x \/ ConsideredBefore(s, y, x)) => Covers(s, y)

\* C11: the activation phase of a tick activates exactly the inactive
\* supporters that, taken in ascending order of min_peer, are covered
\* together with all those before them: the starving peers less the free
\* slots of the supporters before are at least min_peer.
C11_ActivationPrefix ==
    ~remove_timedout_peers_raises(St) =>
        \A sh \in Range(BeforeActivation.monitored_supporters) :
            sh \in Range(AfterActivation.active_supporters)
                <=> \/ sh \in Range(BeforeActivation.active_supporters)
                    \/ Accepted(BeforeActivation, sh)

\* a tick would accept one inactive supporter and stop at a later one, which
\* alone would have been covered, because the first takes the starving peers
C11_Witness ==
    /\ ~remove_timedout_peers_raises(St)
    /\ \E x, y \in InactiveIn(BeforeActivation) :
           /\ Accepted(BeforeActivation, x)
           /\ ConsideredBefore(BeforeActivation, x, y)
           /\ ~Accepted(BeforeActivation, y)
           /\ Cardinality(StarvingIn(BeforeActivation)) >= BeforeActivation.sups[y].min_peer
           /\ x \in Range(AfterActivation.active_supporters)
           /\ y \notin Range(AfterActivation.active_supporters)

\* C12: when the supporters the activation phase accepts have together at
\* least as many free slots as there are starving peers, then at the end of
\* the tick every accepted supporter is active and every peer that was
\* Starving at the start of the phase is Supported.
C12_AcceptedPrefixServesAll ==
    LET accepted == { sh \in InactiveIn(BeforeActivation) : Accepted(BeforeActivation, sh) }
        end == update_states(St, now, {}, {}).s
    IN  ( /\ ~remove_timedout_peers_raises(St)
          /\ accepted # {}
          /\ FreeSlots(BeforeActivation, accepted) >= Cardinality(StarvingIn(BeforeActivation)) ) =>
            /\ accepted \subseteq Range(end.active_supporters)
            /\ \A h \in StarvingIn(BeforeActivation) : end.peers[h].state = SupportedState

\* a tick would accept two supporters for two starving peers
C12_Witness ==
    LET accepted == { sh \in InactiveIn(BeforeActivation) : Accepted(BeforeActivation, sh) }
        end == update_states(St, now, {}, {}).s
    IN  /\ ~remove_timedout_peers_raises(St)
        /\ Cardinality(accepted) = 2
        /\ Cardinality(StarvingIn(BeforeActivation)) = 2
        /\ FreeSlots(BeforeActivation, accepted) >= 2
        /\ accepted \subseteq Range(end.active_supporters)
        /\ \A h \in StarvingIn(BeforeActivation) : end.peers[h].state = SupportedState

\* C13: at the end of every tick the active list is in order of
\* non-increasing available_slots().
C13_ActiveListOrdered ==
    ~remove_timedout_peers_raises(St) =>
        LET end == update_states(St, now, {}, {}).s
            q == end.active_supporters
        IN  \A i, j \in DOMAIN q :
                i <= j => available_slots(end.sups[q[i]]) >= available_slots(end.sups[q[j]])

\* C14: between operations a supporter is in the active list if and only if
\* it is registered and its roster is not empty.
C14_ActiveIffRegisteredWithRoster ==
    \A sh \in DOMAIN sups :
        sh \in Range(active_supporters) <=>
            (sh \in Range(monitored_supporters) /\ sups[sh].supported_peers # <<>>)

\* C19: registering a peer under an identity (id, ip, port) that is already
\* registered leaves the registry and every field of the existing peer
\* unchanged.
C19_DuplicateRegisterKeepsPeer ==
    \A h \in Range(monitored_peers) :
        LET ident == [id |-> peers[h].id, ip |-> peers[h].ip, port |-> peers[h].port]
            after == register_monitored_peer(St, ident, peers[h].peer_type, now)
        IN  /\ after.monitored_peers = monitored_peers
            /\ after.peers[h] = peers[h]

\* C16: no exception leaves a tick without the next tick being scheduled.
C16_TickAlwaysRescheduled == update_scheduled

\* C20: no registered supporter has min_peer < 1.
C20_MinPeerAtLeastOne ==
    \A sh \in Range(monitored_supporters) : sups[sh].min_peer >= 1

\* the supporters an operation has unregistered have an empty roster
\* afterwards, and the peers of their rosters are Starving
UnregisteredHaveNoRoster(before, after) ==
    \A sh \in Range(before.monitored_supporters) \ Range(after.monitored_supporters) :
        /\ after.sups[sh].supported_peers = <<>>
        /\ \A ph \in Range(before.sups[sh].supported_peers) :
               after.peers[ph].state = StarvingState

\* the steps of a tick up to the reap of the dead supporters, when the
\* supporters in not_responding fail the probe
ReapAfterProbe(not_responding) ==
    remove_dead_supporters(
        query_all_supporters(remove_timedout_peers(St, now), not_responding))

\* C15: after unregister_monitored_supporter(S) on a registered supporter S,
\* called directly or by the reap of the dead supporters in a tick, the
\* roster of S is empty and every peer that was in it is Starving.
C15_UnregisterStarvesRoster ==
    /\ \A sh \in Range(monitored_supporters) :
           LET after == unregister_monitored_supporter(St, sh)
           IN  /\ sh \notin Range(after.monitored_supporters)
               /\ UnregisteredHaveNoRoster(St, after)
    /\ ~remove_timedout_peers_raises(St) =>
           \A not_responding \in ProbeOutcomes :
               LET after == ReapAfterProbe(not_responding)
               IN  /\ not_responding \cap Range(after.monitored_supporters) = {}
                   /\ UnregisteredHaveNoRoster(St, after)

\* a registered supporter supports a peer in state Supported; unregistered
\* directly, and reaped after a failed probe, it leaves the peer Starving
C15_Witness ==
    \E sh \in Range(monitored_supporters) :
        \E ph \in Range(sups[sh].supported_peers) :
            /\ peers[ph].state = SupportedState
            /\ ~remove_timedout_peers_raises(St)
            /\ unregister_monitored_supporter(St, sh).peers[ph].state = StarvingState
            /\ unregister_monitored_supporter(St, sh).sups[sh].supported_peers = <<>>
            /\ ReapAfterProbe({sh}).peers[ph].state = StarvingState
            /\ ReapAfterProbe({sh}).sups[sh].supported_peers = <<>>

\* C17: while a tick is executing no step of another thread adds or removes
\* a peer or a supporter.
C17_TickSeesNoRegistryChange ==
    [][ (tick_pc = "refreshed" /\ tick_pc' = "refreshed") =>
            /\ Len(monitored_peers') = Len(monitored_peers)
            /\ Len(monitored_supporters') = Len(monitored_supporters) ]_vars

\* what receive_msg and the message handlers write in a peer
MessageFields(p) ==
    <<p.last_received_msg, p.ts_last_received_msg, p.support_requests, p.ts_list,
      p.timeout_timer>>

InvalidPeerRegistrations ==
    ((BadPeerIdents \cup { [id |-> "a", ip |-> "ip1", port |-> 500] }) \X PeerTypeInputs)
        \cup (PeerIdents \X (PeerTypeInputs \ PEER_TYPES))
InvalidSupporterRegistrations ==
    BadSupIdents \cup { [id |-> 1, addr |-> <<"host1", 1000>>, min_peer |-> 1, max_peer |-> 1] }

\* C21: a registration that fails validation changes nothing: the registries,
\* the active list and every record are as before the call.
C21_InvalidRegistrationChangesNothing ==
    /\ \A r \in InvalidPeerRegistrations :
           register_monitored_peer(St, r[1], r[2], now) = St
    /\ \A ident \in InvalidSupporterRegistrations :
           register_monitored_supporter(St, ident) = St

\* a peer is registered and supported by an active supporter when the invalid
\* registrations are made, and a valid registration at that moment does
\* change the monitor
C21_Witness ==
    /\ monitored_peers # <<>>
    /\ active_supporters # <<>>
    /\ peers[monitored_peers[1]].last_received_msg = MSG_PEER_SUPPORTED
    /\ \A r \in InvalidPeerRegistrations :
           register_monitored_peer(St, r[1], r[2], now) = St
    /\ \E ident \in PeerIdents :
           register_monitored_peer(St, ident, PEER_TYPE_LEECHER, now) # St

\* the peer IDs that match no registered peer
UnregisteredIds ==
    { peer_id \in PeerIdInputs :
          \A h \in Range(monitored_peers) : peers[h].id # peer_id }

\* C22: a message for a peer ID that matches no registered peer is dropped:
\* no record, roster or registry changes.
C22_UnknownIdDropped ==
    \A peer_id \in UnregisteredIds, msg_type \in IngressMsgTypes :
        received_peer_message(St, msg_type, peer_id, now) = St

\* a peer is registered and a message under its ID would change it, while
\* the same message under an unknown ID is dropped
C22_Witness ==
    /\ monitored_peers # <<>>
    /\ UnregisteredIds # {}
    /\ \E msg_type \in IngressMsgTypes :
           /\ received_peer_message(St, msg_type, "a", now) # St
           /\ \A peer_id \in UnregisteredIds :
                  received_peer_message(St, msg_type, peer_id, now) = St

\* the receive_peer_list calls a tick makes for the supporter object sh
CallsFor(r, sh) ==
    { i \in DOMAIN r.calls : r.calls[i].supporter = SupKeyOf(r.s, sh) }

\* the supporters registered before and after the tick r whose roster the
\* tick has changed
RosterChanged(r) ==
    { sh \in Range(monitored_supporters) \cap Range(r.s.monitored_supporters) :
          r.s.sups[sh].supported_peers # sups[sh].supported_peers }

\* C23: a tick that changes the roster of a registered supporter calls
\* receive_peer_list for it exactly once, with the roster of the end of the
\* tick, whether the push fails or not, and leaves its dirty flag false.
C23_ChangedRosterPushedOnce ==
    ~remove_timedout_peers_raises(St) =>
        \A push_fails \in SUBSET Range(monitored_supporters) :
            LET r == update_states(St, now, {}, push_fails)
            IN  \A sh \in RosterChanged(r) :
                    /\ Cardinality(CallsFor(r, sh)) = 1
                    /\ \A i \in CallsFor(r, sh) :
                           /\ r.calls[i].peer_list = peers_to_be_unchoked(r.s, sh)
                           /\ r.calls[i].failed = (sh \in push_fails)
                    /\ ~r.s.sups[sh].updated

\* a tick takes a peer out of the roster of a supporter that keeps another
\* peer and was not marked as updated, and pushes the roster that is left
C23_Witness ==
    /\ ~remove_timedout_peers_raises(St)
    /\ LET r == update_states(St, now, {}, {})
       IN  \E sh \in RosterChanged(r) :
               /\ ~sups[sh].updated
               /\ Len(r.s.sups[sh].supported_peers) = 1
               /\ Len(sups[sh].supported_peers) = 2
               /\ \E i \in CallsFor(r, sh) : Len(r.calls[i].peer_list) = 1

\* C24: a tick during which no roster changes makes no receive_peer_list
\* call.
C24_NoChangeNoPush ==
    ~remove_timedout_peers_raises(St) =>
        LET r == update_states(St, now, {}, {})
        IN  (\A sh \in DOMAIN sups :
                 r.s.sups[sh].supported_peers = sups[sh].supported_peers)
                => r.calls = <<>>

\* C24 (amended): a tick makes no receive_peer_list call for a registered
\* supporter whose dirty flag is clear when the tick starts and whose roster
\* the tick does not change.
C24_CleanUnchangedNotPushed ==
    ~remove_timedout_peers_raises(St) =>
        LET r == update_states(St, now, {}, {})
        IN  \A sh \in Range(monitored_supporters) \cap Range(r.s.monitored_supporters) :
                (~sups[sh].updated
                 /\ r.s.sups[sh].supported_peers = sups[sh].supported_peers)
                    => CallsFor(r, sh) = {}

\* a supporter with a roster and a clear flag goes through a tick that leaves
\* its roster alone and makes no call for it, while the same tick pushes the
\* roster of another supporter
C24_Witness ==
    /\ ~remove_timedout_peers_raises(St)
    /\ LET r == update_states(St, now, {}, {})
       IN  /\ r.calls # <<>>
           /\ \E sh \in Range(monitored_supporters) \cap Range(r.s.monitored_supporters) :
                  /\ ~sups[sh].updated
                  /\ sups[sh].supported_peers # <<>>
                  /\ r.s.sups[sh].supported_peers = sups[sh].supported_peers
                  /\ CallsFor(r, sh) = {}

\* C25: when the push of a roster to a supporter fails in a tick, the next
\* tick pushes the roster of that supporter again.
C25_FailedPushRetried ==
    ~remove_timedout_peers_raises(St) =>
        \A push_fails \in ProbeOutcomes :
            LET first == update_states(St, now, {}, push_fails)
                second == update_states(first.s, now, {}, {})
            IN  \A sh \in push_fails \cap Range(second.s.monitored_supporters) :
                    CallsFor(first, sh) # {} => CallsFor(second, sh) # {}

\* C26: a tick over the registry of any reachable state runs through all of
\* its loops and completes without an exception.
C26_TickCompletes ==
    \A not_responding \in ProbeOutcomes, push_fails \in ProbeOutcomes :
        ~update_states(St, now, not_responding, push_fails).raised

\* C27: a supporter activated in the activation phase of a tick holds at
\* least min_peer peers at the end of that tick.
C27_ActivatedHoldsMinPeer ==
    ~remove_timedout_peers_raises(St) =>
        LET end == update_states(St, now, {}, {}).s
            activated == Range(AfterActivation.active_supporters)
                             \ Range(BeforeActivation.active_supporters)
        IN  \A sh \in activated :
                Len(end.sups[sh].supported_peers) >= end.sups[sh].min_peer

\* C28: after the assignment phase of a tick no registered peer is Starving
\* while a supporter in the active list has a free slot.
C28_NoStarvingBesideFreeSlot ==
    ~remove_timedout_peers_raises(St) =>
        (StarvingIn(BeforeActivation) # {} =>
             \A sh \in Range(BeforeActivation.active_supporters) :
                 available_slots(BeforeActivation.sups[sh]) <= 0)

\* C29: after the roster refresh of a tick every peer left in the roster of
\* an active supporter is in state Supported.
C29_RefreshedRosterSupported ==
    ~remove_timedout_peers_raises(St) =>
        LET s == update_states_refresh(St, now, {})
        IN  \A sh \in Range(s.active_supporters) :
                \A ph \in Range(s.sups[sh].supported_peers) :
                    s.peers[ph].state = SupportedState

\* C30: every registered peer has received a message: its last-message
\* timestamp is set (PEER_REGISTERED at the latest), so the reap of stale
\* peers never meets a peer without one.
C30_RegisteredPeerHasTimestamp ==
    \A h \in Range(monitored_peers) :
        /\ peers[h].ts_last_received_msg # None
        /\ peers[h].last_received_msg # NoMsg

\* C31: after the reap of the dead supporters in a tick the list of dead
\* supporters is empty.
C31_DeadListDrained ==
    ~remove_timedout_peers_raises(St) =>
        \A not_responding \in ProbeOutcomes :
            ReapAfterProbe(not_responding).dead_supporters = <<>>

\* the registered peers whose last message, of any kind, is less than
\* PEER_REMOVAL_TIME old
RecentlyHeard ==
    { h \in Range(monitored_peers) :
          now - peers[h].ts_last_received_msg < PEER_REMOVAL_TIME }

AssignmentCount(s, h) ==
    IF s.peers[h].id \in DOMAIN s.number_of_assignments
    THEN s.number_of_assignments[s.peers[h].id] ELSE 0
\* the peers the assignment phase of a tick at the current state moves from
\* Starving to Supported
ServedInPhase ==
    LET s == update_states_refresh(St, now, {})
    IN  { h \in StarvingIn(s) : BeforeActivation.peers[h].state = SupportedState }
\* the peers the assignment phase leaves Starving
LeftInPhase ==
    LET s == update_states_refresh(St, now, {})
    IN  { h \in StarvingIn(s) : BeforeActivation.peers[h].state = StarvingState }

\* C33: in the assignment phase of a tick no peer that is assigned has a
\* strictly smaller assignment count than a peer that is left Starving, and
\* among peers with equal counts the one registered earlier is served first.
C33_ServedByAssignmentCount ==
    ~remove_timedout_peers_raises(St) =>
        LET s == update_states_refresh(St, now, {})
        IN  \A x \in ServedInPhase, y \in LeftInPhase :
                /\ AssignmentCount(s, x) >= AssignmentCount(s, y)
                /\ AssignmentCount(s, x) = AssignmentCount(s, y) =>
                       IndexIn(s.monitored_peers, x) < IndexIn(s.monitored_peers, y)

\* a peer registered later, with the larger count, is served and an earlier
\* one is left Starving
C33_Witness ==
    /\ ~remove_timedout_peers_raises(St)
    /\ LET s == update_states_refresh(St, now, {})
       IN  \E x \in ServedInPhase, y \in LeftInPhase :
               /\ AssignmentCount(s, x) > AssignmentCount(s, y)
               /\ IndexIn(s.monitored_peers, y) < IndexIn(s.monitored_peers, x)

\* C34: every operation that acquires the lock releases it on every path:
\* while no operation is in progress the hold count is zero, the nested
\* acquisition of register_monitored_peer finds the lock its own, and every
\* operation that has entered, and every tick, leaves again.
C34_LockReleasedOnEveryPath ==
    /\ []((ingress_pc.at = "idle" /\ tick_pc = "idle") => lock = FreeLock)
    /\ [](ingress_pc.at = "nested_acquire" => rlock_can_acquire(lock, "ingress"))
    /\ (ingress_pc.at # "idle") ~> (ingress_pc.at = "idle")
    /\ (tick_pc # "idle") ~> (tick_pc = "idle")

\* the nested acquisition has been made, after a tick that raised has
\* released the lock
C34_Witness ==
    /\ lock = [owner |-> "ingress", count |-> 2]
    /\ ~update_scheduled

\* the registered supporters whose roster holds the peer h of monitor s
RostersOf(s, h) ==
    { sh \in Range(s.monitored_supporters) : h \in Range(s.sups[sh].supported_peers) }

\* C35: at the end of every tick every registered peer in state Supported is
\* in the roster of exactly one registered supporter.
C35_SupportedInOneRoster ==
    \A not_responding \in ProbeOutcomes :
        LET r == update_states(St, now, not_responding, {})
        IN  ~r.raised =>
                \A h \in Range(r.s.monitored_peers) :
                    r.s.peers[h].state = SupportedState =>
                        Cardinality(RostersOf(r.s, h)) = 1

\* C36: every peer in the roster of a registered supporter is a registered
\* peer (the registry holds an object equal to it).
C36_RosterPeersRegistered ==
    \A sh \in Range(monitored_supporters) :
        \A h \in Range(sups[sh].supported_peers) :
            peer_in(St, PeerKeyOf(St, h), monitored_peers)

\* the registered peer with the given ID is Starving while a supporter in the
\* active list has a free slot
StarvingBesideFreeSlot(peer_id) ==
    /\ \E h \in Range(monitored_peers) :
           peers[h].id = peer_id /\ peers[h].state = StarvingState
    /\ \E sh \in Range(active_supporters) : available_slots(sups[sh]) > 0

\* C37: with ticks scheduled fairly, a registered peer does not stay Starving
\* for ever while a supporter in the active list has a free slot.
C37_StarvingEventuallyAssigned ==
    ~<>[]StarvingBesideFreeSlot("a")

\* the roster of a registered supporter holds a peer with the given ID that is
\* Supported and has declined support: its timeout timer, started by
\* SUPPORT_NOT_NEEDED and stopped by SUPPORT_REQUIRED, is running
DeclinedInRoster(peer_id) ==
    \E sh \in Range(monitored_supporters) :
        \E h \in Range(sups[sh].supported_peers) :
            /\ peers[h].id = peer_id
            /\ peers[h].state = SupportedState
            /\ peers[h].timeout_timer # None

\* C38: with ticks scheduled fairly and time passing, a Supported peer that
\* has declined support and asks for none afterwards does not stay Supported
\* in a roster for ever, whatever other messages it receives.
C38_DeclinedEventuallyReleased ==
    ~<>[]DeclinedInRoster("a")

\* C39: a registered supporter equal to one reaped as dead earlier stays
\* registered through a tick in which every liveness probe succeeds.
C39_ReRegisteredSupporterStays ==
    \A sh \in Range(monitored_supporters) :
        supporter_in(St, SupKeyOf(St, sh), dead_supporters) =>
            LET r == update_states(St, now, {}, {})
            IN  ~r.raised =>
                    supporter_in(r.s, SupKeyOf(St, sh), r.s.monitored_supporters)

Min(a, b) == IF a <= b THEN a ELSE b

\* C40: the request window of every peer holds min(support_requests,
\* PEER_REQUIRED_MSGS) timestamps.
C40_WindowFollowsCounter ==
    \A h \in DOMAIN peers :
        Len(peers[h].ts_list) = Min(peers[h].support_requests, PEER_REQUIRED_MSGS)

\* a registered peer whose counter has passed the size of the window, and
\* whose window has dropped the requests of the first second
C40_Witness ==
    \E h \in Range(monitored_peers) :
        /\ peers[h].support_requests > PEER_REQUIRED_MSGS
        /\ Len(peers[h].ts_list) = PEER_REQUIRED_MSGS
        /\ peers[h].ts_list[1] > StartTime

====
